---- MODULE Spec2Model ----
(* Device interface layer of src/src/emu/devintrf.c: the device registry     *)
(* (an intrusive list linked by next and typenext), its lookup family, the   *)
(* start-up loop of device_list_start with the reset and stop callbacks it   *)
(* registers (Spec, FairSpec), the pool of temporary strings (PoolSpec) and  *)
(* the tag functions (TagSpec).                                              *)
(*                                                                           *)
(* Conventions.  A device_config lives at an address of Addrs; NULL is the   *)
(* null pointer.  assert(...) stops the program when its condition is false  *)
(* (error.kind = "assert"), fatalerror(...) stops it with the kind of the    *)
(* message; a stopped program takes no further step (pc = "halted").         *)
(* The wildcard is a value of its own, different from every concrete type    *)
(* and from NULL (the lookups assert type != NULL and allow the wildcard).   *)
EXTENDS Integers, Sequences, FiniteSets, TLC

\* ------------------------------------------------------------------ bounds

\* Largest number of device_config records alive at one time.
MaxDevices == 3

\* Largest number of temporary string buffers handed out in one run.
MaxAcquisitions == 18

\* Largest length of a tag handed to device_build_tag and device_inherit_tag.
MaxTagLength == 3

\* ---------------------------------------------------------------- constants

TEMP_STRING_POOL_ENTRIES == 16

\* The largest value of temp_string_pool_index, an int of 32 bits.
INT_MAX == 2147483647

INT_MIN == (0 - INT_MAX) - 1

\* ------------------------------------------------- values of the environment

NULL == 0

Addrs == 1..MaxDevices

\* The running_machine handed to the live device management functions.
MACHINE == 1

\* Concrete device types (capability-query functions of the type authors).
DeviceTypes == {"TYPE_A", "TYPE_B", "TYPE_C"}

DEVICE_TYPE_WILDCARD == "WILDCARD"

TypeFilters == DeviceTypes \cup {DEVICE_TYPE_WILDCARD}

DeviceClasses == {"CLASS_CPU", "CLASS_SOUND"}

Tags == {"a", "b"}

\* The (type, tag) pairs the machine configurations hand to device_list_add
\* and device_list_remove.
Declared ==
    {<<"TYPE_A", "a">>, <<"TYPE_A", "b">>, <<"TYPE_B", "a">>, <<"TYPE_C", "b">>}

\* devtype_get_info_int(type, DEVINFO_INT_CLASS): two types share a class.
devtype_get_class(type) ==
    IF type = "TYPE_C" THEN "CLASS_SOUND" ELSE "CLASS_CPU"

\* (*type)(device, DEVINFO_INT_TOKEN_BYTES, &info): TYPE_C declares no state.
devtype_get_token_bytes(type) ==
    IF type = "TYPE_C" THEN 0 ELSE 4

\* memory_region(machine, tag): only tag "a" names a region.
memory_region(tag) ==
    IF tag = "a" THEN 1 ELSE NULL

\* memory_region_length(machine, tag)
memory_region_length(tag) ==
    IF tag = "a" THEN 16 ELSE 0

\* ------------------------------------------------------------------- state

VARIABLES
    mem,          \* the heap: Addrs -> device_config (FreeCell when not allocated)
    listhead,     \* *listheadptr / machine->config->devicelist
    order,        \* history: the live records in the order they were added
    pc,           \* "config" | "sweep" | "halted"
    result,       \* the last call: its operation, arguments and return value
    error,        \* the fatal error or failed assertion that stopped the program
    curdev,       \* device_list_start: the loop variable `device`
    numstarted,   \* device_list_start: numstarted
    prevstarted,  \* device_list_start: prevstarted
    devcount,     \* device_list_start: devcount
    sweeps,       \* history: sweeps of the start loop begun by this start
    sweepnew,     \* history: devices the current sweep has started
    policy,       \* how the start entry points answer: "free" | "chain"
    depends,      \* policy "chain": Addrs -> the device that must be started first
    callbacks,    \* device_list_reset and device_list_stop are registered
    calls,        \* history: the entry points called and the tokens freed by
                  \* the current or last call
    attached,     \* history: the devices an attach has covered since their add
    startedbefore, \* history: the devices an earlier device_list_start went over
    temp_string_pool,       \* 0..TEMP_STRING_POOL_ENTRIES-1 -> the string held
    temp_string_pool_index, \* the cursor of the pool
    acquired,     \* history: the buffers get_temp_string_buffer has returned
    tagargs,      \* the arguments of the tag function that is called
    dest,         \* the astring *dest of the tag functions
    tagreturn     \* the tag function that was called and the string it returned

vars == <<mem, listhead, order, pc, result, error, curdev, numstarted,
          prevstarted, devcount, sweeps, sweepnew, policy, depends,
          callbacks, calls, attached, startedbefore,
          temp_string_pool, temp_string_pool_index, acquired,
          tagargs, dest, tagreturn>>

tagvars == <<tagargs, dest, tagreturn>>

poolvars == <<temp_string_pool, temp_string_pool_index, acquired>>

registry == <<mem, listhead, order>>

startvars == <<curdev, numstarted, prevstarted, devcount, sweeps, sweepnew,
               policy, depends>>

\* A cell of the heap that holds no device_config.  tokendata is what the
\* block at token holds: "none" without a block, "zero" when zero-filled,
\* "indeterminate" as malloc leaves it, "used" once an entry point of the
\* device has run on it.
FreeCell ==
    [next |-> NULL, typenext |-> NULL, type |-> "none", class |-> "none",
     tag |-> "", started |-> FALSE, token |-> NULL, tokenbytes |-> 0,
     machine |-> NULL, region |-> NULL, regionbytes |-> 0, tokendata |-> "none"]

NoError == [kind |-> "none", a |-> 0, b |-> 0]

NoResult == [op |-> "none", type |-> "none", tag |-> "", val |-> NULL]

NoDepends == [a \in Addrs |-> NULL]

\* ------------------------------------------------------ temporary strings

\* The buffers of temp_string_pool.
PoolSlots == 0..(TEMP_STRING_POOL_ENTRIES - 1)

\* The string a type's info function writes, whatever its text.
InfoString == "s"

\* a % b of C for b > 0: the quotient is truncated towards zero, so the
\* remainder has the sign of a.
CRem(a, b) ==
    IF a >= 0 THEN a % b
    ELSE IF a % b = 0 THEN 0 ELSE (a % b) - b

\* temp_string_pool_index++ on an int: past INT_MAX the value wraps to INT_MIN
\* on the builds that do not trap (the overflow is undefined behaviour).
IntIncrement(index) == IF index = INT_MAX THEN INT_MIN ELSE index + 1

\* get_temp_string_buffer: the slot it takes, the pool after string[0] = 0
\* and the cursor after the increment.  A slot outside PoolSlots is memory
\* outside the pool, which the model does not hold.
get_temp_string_buffer ==
    LET slot == CRem(temp_string_pool_index, TEMP_STRING_POOL_ENTRIES)
    IN  [slot |-> slot,
         pool |-> IF slot \in PoolSlots
                  THEN [temp_string_pool EXCEPT ![slot] = ""]
                  ELSE temp_string_pool,
         index |-> IntIncrement(temp_string_pool_index)]

\* devtype_get_info_string / device_get_info_string on the pool: a buffer is
\* taken and the type's info function writes its string into it.
InfoStringCall ==
    LET r == get_temp_string_buffer
    IN  /\ temp_string_pool' = IF r.slot \in PoolSlots
                               THEN [r.pool EXCEPT ![r.slot] = InfoString]
                               ELSE r.pool
        /\ temp_string_pool_index' = r.index
        /\ acquired' = Append(acquired,
                              [buffer |-> r.slot,
                               content |-> IF r.slot \in PoolSlots
                                           THEN r.pool[r.slot] ELSE ""])

\* --------------------------------------------------------------------- tags

\* The characters of the tags: a C string is the sequence of its characters
\* before the terminating NUL.
TagChars == {"d", ":"}

\* The C strings of at most n characters.
RECURSIVE StringsUpTo(_)
StringsUpTo(n) ==
    IF n = 0 THEN {<<>>}
    ELSE StringsUpTo(n - 1)
         \cup {Append(s, c) : s \in {t \in StringsUpTo(n - 1) : Len(t) = n - 1},
                              c \in TagChars}

\* const device_config *device of device_build_tag: NULL, or a record with
\* its tag.
TagDevices ==
    {[null |-> TRUE, tag |-> <<>>]}
    \cup {[null |-> FALSE, tag |-> s] : s \in StringsUpTo(MaxTagLength)}

NoTagArgs == [device |-> [null |-> TRUE, tag |-> <<>>], sourcetag |-> <<>>, tag |-> <<>>]

NoTagReturn == [fct |-> "none", val |-> <<>>]

\* astring_cpyc(dest, src): dest becomes a copy of src.
astring_cpyc(d, src) == src

\* astring_catc(dest, src): src is appended to dest.
astring_catc(d, src) == d \o src

\* astring_cpych(dest, src, count): dest becomes the first count characters of src.
astring_cpych(d, src, count) == SubSeq(src, 1, count)

\* The scan of strrchr from position i on: the position of the last c seen.
RECURSIVE StrrchrFrom(_, _, _, _)
StrrchrFrom(s, c, i, found) ==
    IF i > Len(s) THEN found
    ELSE StrrchrFrom(s, c, i + 1, IF s[i] = c THEN i ELSE found)

\* Mutant: the first occurrence is returned, as strchr does.
strrchr_First(s, c) ==
    IF \E i \in 1..Len(s) : s[i] = c
    THEN CHOOSE i \in 1..Len(s) : s[i] = c /\ \A j \in 1..(i - 1) : s[j] # c
    ELSE NULL

\* strrchr(s, c) for c # NUL: the position of the last c in s, counted from 1,
\* or NULL; the position is divider + 1 - sourcetag of device_inherit_tag.
strrchr(s, c) == StrrchrFrom(s, c, 1, NULL)

\* Mutant: the divider is left out.
device_build_tag_NoDivider(d, device, tag) ==
    IF ~device.null
    THEN astring_catc(astring_cpyc(d, device.tag), tag)
    ELSE astring_cpyc(d, tag)

\* device_build_tag: dest after the call, which is the string returned.
device_build_tag(d, device, tag) ==
    IF ~device.null
    THEN astring_catc(astring_catc(astring_cpyc(d, device.tag), <<":">>), tag)
    ELSE astring_cpyc(d, tag)

\* device_inherit_tag: dest after the call, which is the string returned.
device_inherit_tag(d, sourcetag, tag) ==
    LET divider == strrchr(sourcetag, ":")
    IN  IF divider # NULL
        THEN astring_catc(astring_cpych(d, sourcetag, divider), tag)
        ELSE astring_cpyc(d, tag)

\* ------------------------------------------------------------ list walking

\* The records reached from cur by following next, in order.
RECURSIVE GlobalChain(_)
GlobalChain(cur) ==
    IF cur = NULL THEN <<>> ELSE <<cur>> \o GlobalChain(mem[cur].next)

\* device_matches_type
device_matches_type(device, type) ==
    IF type = DEVICE_TYPE_WILDCARD THEN TRUE ELSE mem[device].type = type

\* The scan of device_list_first, from cur on.
RECURSIVE FirstFrom(_, _)
FirstFrom(cur, type) ==
    IF cur = NULL THEN NULL
    ELSE IF device_matches_type(cur, type) THEN cur
    ELSE FirstFrom(mem[cur].next, type)

device_list_first(type) == FirstFrom(listhead, type)

device_list_next(prevdevice, type) ==
    IF type = DEVICE_TYPE_WILDCARD THEN mem[prevdevice].next
    ELSE mem[prevdevice].typenext

\* The scan of device_list_add and device_list_remove for (type, tag): the
\* record found, or NULL at the end of the list.
RECURSIVE FindExact(_, _, _)
FindExact(cur, type, tag) ==
    IF cur = NULL THEN NULL
    ELSE IF type = mem[cur].type /\ tag = mem[cur].tag THEN cur
    ELSE FindExact(mem[cur].next, type, tag)

\* The last record of the global chain that starts at cur (cur # NULL).
RECURSIVE GlobalTail(_)
GlobalTail(cur) ==
    IF mem[cur].next = NULL THEN cur ELSE GlobalTail(mem[cur].next)

\* The last record of the type chain that starts at cur (cur # NULL).
RECURSIVE TypeTail(_)
TypeTail(cur) ==
    IF mem[cur].typenext = NULL THEN cur ELSE TypeTail(mem[cur].typenext)

\* The record of the type chain from cur whose typenext is device.
RECURSIVE TypePred(_, _)
TypePred(cur, device) ==
    IF mem[cur].typenext = device THEN cur
    ELSE TypePred(mem[cur].typenext, device)

\* The record of the global chain from cur whose next is device.
RECURSIVE GlobalPred(_, _)
GlobalPred(cur, device) ==
    IF mem[cur].next = device THEN cur
    ELSE GlobalPred(mem[cur].next, device)

\* ------------------------------------------------- type-based device access

RECURSIVE ItemsFrom(_, _)
ItemsFrom(cur, type) ==
    IF cur = NULL THEN 0
    ELSE (IF device_matches_type(cur, type) THEN 1 ELSE 0)
         + ItemsFrom(mem[cur].next, type)

device_list_items(type) == ItemsFrom(listhead, type)

RECURSIVE FindByTagFrom(_, _, _)
FindByTagFrom(cur, type, tag) ==
    IF cur = NULL THEN NULL
    ELSE IF device_matches_type(cur, type) /\ tag = mem[cur].tag THEN cur
    ELSE FindByTagFrom(mem[cur].next, type, tag)

\* Mutant: the type is not compared.
device_list_find_by_tag_AnyType(type, tag) ==
    FindByTagFrom(listhead, DEVICE_TYPE_WILDCARD, tag)

device_list_find_by_tag(type, tag) == FindByTagFrom(listhead, type, tag)

RECURSIVE IndexFrom(_, _, _, _)
IndexFrom(cur, type, tag, index) ==
    IF cur = NULL THEN -1
    ELSE IF device_matches_type(cur, type)
         THEN IF tag = mem[cur].tag THEN index
              ELSE IndexFrom(mem[cur].next, type, tag, index + 1)
         ELSE IndexFrom(mem[cur].next, type, tag, index)

device_list_index(type, tag) == IndexFrom(listhead, type, tag, 0)

\* Mutant: index is decremented on every record (index-- == 0 tested first).
RECURSIVE FindByIndexFrom_CountsAll(_, _, _)
FindByIndexFrom_CountsAll(cur, type, index) ==
    IF cur = NULL THEN NULL
    ELSE IF index = 0 /\ device_matches_type(cur, type) THEN cur
    ELSE FindByIndexFrom_CountsAll(mem[cur].next, type, index - 1)

\* The loop of device_list_find_by_index: index is decremented only on a match.
RECURSIVE FindByIndexFrom(_, _, _)
FindByIndexFrom(cur, type, index) ==
    IF cur = NULL THEN NULL
    ELSE IF device_matches_type(cur, type)
         THEN IF index = 0 THEN cur
              ELSE FindByIndexFrom(mem[cur].next, type, index - 1)
         ELSE FindByIndexFrom(mem[cur].next, type, index)

\* What device_list_find_by_index returns when its assertions hold.
device_list_find_by_index(type, index) == FindByIndexFrom(listhead, type, index)

\* The assertions of device_list_find_by_index on its arguments: when one is
\* false the call stops the program and returns nothing.
device_list_find_by_index_asserts(type, index) ==
    /\ type \in TypeFilters
    /\ index >= 0

\* ------------------------------------------------ class-based device access

RECURSIVE ClassItemsFrom(_, _)
ClassItemsFrom(cur, class) ==
    IF cur = NULL THEN 0
    ELSE (IF mem[cur].class = class THEN 1 ELSE 0)
         + ClassItemsFrom(mem[cur].next, class)

device_list_class_items(class) == ClassItemsFrom(listhead, class)

\* The scan of device_list_class_first and device_list_class_next, from cur on.
RECURSIVE ClassFirstFrom(_, _)
ClassFirstFrom(cur, class) ==
    IF cur = NULL THEN NULL
    ELSE IF mem[cur].class = class THEN cur
    ELSE ClassFirstFrom(mem[cur].next, class)

device_list_class_first(class) == ClassFirstFrom(listhead, class)

\* Mutant: the scan goes on from prevdevice->typenext.
device_list_class_next_TypeNext(prevdevice, class) ==
    ClassFirstFrom(mem[prevdevice].typenext, class)

device_list_class_next(prevdevice, class) ==
    ClassFirstFrom(mem[prevdevice].next, class)

\* ------------------------------------------------------ device configuration

\* The locals of device_list_start and the history of its run do not outlive
\* the next call.
StartLocalsGone ==
    /\ curdev' = NULL
    /\ numstarted' = 0
    /\ prevstarted' = 0
    /\ devcount' = 0
    /\ sweeps' = 0
    /\ sweepnew' = 0
    /\ policy' = "free"
    /\ depends' = NoDepends

\* Mutant: the scan compares the first record only.
DuplicateFound_HeadOnly(type, tag) ==
    /\ listhead # NULL
    /\ type = mem[listhead].type
    /\ tag = mem[listhead].tag

\* Mutant: the scan starts at the second record.
DuplicateFound_SkipHead(type, tag) ==
    /\ listhead # NULL
    /\ FindExact(mem[listhead].next, type, tag) # NULL

\* device_list_add, the scan for a duplicate: some record has the type and tag.
DuplicateFound(type, tag) == FindExact(listhead, type, tag) # NULL

\* device_list_add, "populate all fields".  tokenbytes is not written by
\* device_list_add and not read before device_list_start writes it; the model
\* holds 0 there.
NewDevice(type, tag) ==
    [next |-> NULL, typenext |-> NULL, type |-> type,
     class |-> devtype_get_class(type), tag |-> tag, started |-> FALSE,
     token |-> NULL, tokenbytes |-> 0, machine |-> NULL, region |-> NULL,
     regionbytes |-> 0, tokendata |-> "none"]

\* Mutant: the new record is linked behind the last record of the list,
\* whatever its type.
TypeLinkTarget_GlobalTail(type) ==
    IF listhead = NULL THEN NULL ELSE GlobalTail(listhead)

\* device_list_add, the end of the type chain: the record whose typenext is
\* written, or NULL when the write only reaches the local typedevice.
TypeLinkTarget(type) ==
    LET typedevice == device_list_first(type)
    IN  IF typedevice = NULL THEN NULL ELSE TypeTail(typedevice)

\* device_list_add, the end of the global chain: the record whose next is
\* written, or NULL when the write reaches *listheadptr.
GlobalLinkTarget ==
    IF listhead = NULL THEN NULL ELSE GlobalTail(listhead)

\* The history of insertions without one record.
Without(seq, device) == SelectSeq(seq, LAMBDA x : x # device)

\* device is the block malloc_or_die hands out: any free cell of the heap.
device_list_add(type, tag, device) ==
    /\ pc = "config"
    /\ IF DuplicateFound(type, tag)
       THEN /\ pc' = "halted"
            /\ error' = [kind |-> "duplicate", a |-> 0, b |-> 0]
            /\ result' = [op |-> "add", type |-> type, tag |-> tag, val |-> NULL]
            /\ UNCHANGED <<registry, attached, startedbefore>>
            /\ StartLocalsGone
            /\ InfoStringCall
       ELSE /\ mem[device] = FreeCell
            /\ LET typetail == TypeLinkTarget(type)
                   tail == GlobalLinkTarget
                   m1 == [mem EXCEPT ![device] = NewDevice(type, tag)]
                   m2 == IF typetail = NULL THEN m1
                         ELSE [m1 EXCEPT ![typetail].typenext = device]
                   m3 == IF tail = NULL THEN m2
                         ELSE [m2 EXCEPT ![tail].next = device]
               IN  /\ mem' = m3
                   /\ listhead' = IF tail = NULL THEN device ELSE listhead
                   /\ order' = Append(order, device)
                   /\ result' = [op |-> "add", type |-> type, tag |-> tag,
                                 val |-> device]
            /\ UNCHANGED <<pc, error, attached, startedbefore, poolvars>>
            /\ StartLocalsGone
    /\ calls' = <<>>
    /\ UNCHANGED callbacks
    /\ UNCHANGED tagvars

\* Mutant: the predecessor in the type chain is given device->next.
RemoveFromTypeList_UsesNext(m, device, type) ==
    LET typedevice == device_list_first(type)
    IN  IF typedevice = device THEN m
        ELSE [m EXCEPT ![TypePred(typedevice, device)].typenext = mem[device].next]

\* device_list_remove, "remove us from the type list": the heap after the write
\* through typedevptr (a write to the local typedevice changes nothing).
RemoveFromTypeList(m, device, type) ==
    LET typedevice == device_list_first(type)
    IN  IF typedevice = device THEN m
        ELSE [m EXCEPT ![TypePred(typedevice, device)].typenext = mem[device].typenext]

\* device_list_remove, "remove the device from the list": the heap after the
\* write through devptr (a write to *listheadptr changes no record).
RemoveFromList(m, device) ==
    IF listhead = device THEN m
    ELSE [m EXCEPT ![GlobalPred(listhead, device)].next = mem[device].next]

device_list_remove(type, tag) ==
    /\ pc = "config"
    /\ LET device == FindExact(listhead, type, tag)
       IN  IF device = NULL
           THEN /\ pc' = "halted"
                /\ error' = [kind |-> "nonexistent", a |-> 0, b |-> 0]
                /\ UNCHANGED <<registry, attached, startedbefore>>
                /\ InfoStringCall
           ELSE /\ mem' = [RemoveFromList(RemoveFromTypeList(mem, device, type), device)
                             EXCEPT ![device] = FreeCell]
                /\ listhead' = IF listhead = device THEN mem[device].next ELSE listhead
                /\ order' = Without(order, device)
                /\ attached' = attached \ {device}
                /\ startedbefore' = startedbefore \ {device}
                /\ UNCHANGED <<pc, error, poolvars>>
    /\ result' = [op |-> "remove", type |-> type, tag |-> tag, val |-> NULL]
    /\ StartLocalsGone
    /\ calls' = <<>>
    /\ UNCHANGED callbacks
    /\ UNCHANGED tagvars

\* ---------------------------------------------------- live device management

device_list_attach_machine ==
    /\ pc = "config"
    /\ LET devices == {GlobalChain(listhead)[i] : i \in 1..Len(GlobalChain(listhead))}
       IN  /\ mem' = [a \in Addrs |->
                         IF a \in devices THEN [mem[a] EXCEPT !.machine = MACHINE]
                         ELSE mem[a]]
           /\ attached' = devices
    /\ result' = [op |-> "attach", type |-> "none", tag |-> "", val |-> NULL]
    /\ UNCHANGED <<listhead, order, pc, error, callbacks, startedbefore, poolvars>>
    /\ StartLocalsGone
    /\ calls' = <<>>
    /\ UNCHANGED tagvars

\* Mutant: the started flag of the device is not looked at.
StartAsserts_NoStarted(m, device) ==
    /\ m[device].machine = MACHINE
    /\ m[device].token = NULL

\* Mutant: the machine of the device is not looked at.
StartAsserts_NoMachine(m, device) ==
    /\ ~m[device].started
    /\ m[device].token = NULL

\* device_list_start, the assertions on a device before its token is allocated.
StartAsserts(m, device) ==
    /\ ~m[device].started
    /\ m[device].machine = MACHINE
    /\ m[device].token = NULL

\* Mutant: no token length is refused.
ZeroTokenLength_Never(bytes) == FALSE

\* device_list_start, "if (device->tokenbytes == 0)".
ZeroTokenLength(bytes) == bytes = 0

\* Mutant: the block is left as malloc_or_die returns it.
TokenMemory_NoMemset(bytes) == "indeterminate"

\* device_list_start, "allocate memory for the token": what the block of bytes
\* bytes holds after malloc_or_die and memset(device->token, 0, bytes).
TokenMemory(bytes) == "zero"

\* device_list_start, "iterate over devices and allocate memory for them", from
\* cur on: the heap it leaves, how it ended and the devices it counted.  The
\* token of a device is the block named by the device's own address.
RECURSIVE AllocFrom(_, _, _)
AllocFrom(cur, m, count) ==
    IF cur = NULL THEN [mem |-> m, kind |-> "none", devcount |-> count]
    ELSE IF ~StartAsserts(m, cur)
         THEN [mem |-> m, kind |-> "assert", devcount |-> count]
    ELSE LET bytes == devtype_get_token_bytes(m[cur].type)
         IN  IF ZeroTokenLength(bytes)
             THEN [mem |-> [m EXCEPT ![cur].tokenbytes = bytes],
                   kind |-> "zerotoken", devcount |-> count + 1]
             ELSE AllocFrom(m[cur].next,
                            [m EXCEPT ![cur].tokenbytes = bytes,
                                      ![cur].token = cur,
                                      ![cur].tokendata = TokenMemory(bytes),
                                      ![cur].machine = MACHINE,
                                      ![cur].region = memory_region(m[cur].tag),
                                      ![cur].regionbytes = memory_region_length(m[cur].tag)],
                            count + 1)

\* The sequences that hold every element of S once.
Orderings(S) ==
    {s \in [1..Cardinality(S) -> S] : \A i, j \in 1..Cardinality(S) : s[i] = s[j] => i = j}

\* The start entry points of a dependency chain c: the start of c[i] succeeds
\* only once c[i-1] is started, and the start of c[1] always succeeds.
ChainDepends(c) ==
    [a \in Addrs |->
        IF \E i \in 2..Len(c) : c[i] = a
        THEN c[(CHOOSE i \in 2..Len(c) : c[i] = a) - 1]
        ELSE NULL]

\* What the start entry points of the registry's devices may be.
StartBehaviours ==
    {[policy |-> "free", depends |-> NoDepends]}
    \cup {[policy |-> "chain", depends |-> ChainDepends(c)] :
             c \in Orderings({GlobalChain(listhead)[i] :
                                 i \in 1..Len(GlobalChain(listhead))})}

\* What (*start)(device) may answer: TRUE is DEVICE_START_OK.
StartAnswers(device) ==
    IF policy = "chain"
    THEN {depends[device] = NULL \/ mem[depends[device]].started}
    ELSE BOOLEAN

\* device_list_start up to the first test of the while loop.
device_list_start(behaviour) ==
    /\ pc = "config"
    /\ LET r == AllocFrom(listhead, mem, 0)
       IN  /\ mem' = r.mem
           /\ devcount' = r.devcount
           /\ IF r.kind # "none"
              THEN /\ pc' = "halted"
                   /\ error' = [kind |-> r.kind, a |-> 0, b |-> 0]
                   /\ curdev' = NULL
                   /\ sweeps' = 0
                   /\ policy' = "free"
                   /\ depends' = NoDepends
                   /\ UNCHANGED startedbefore
                   /\ IF r.kind = "zerotoken" THEN InfoStringCall
                      ELSE UNCHANGED poolvars
              ELSE /\ error' = error
                   /\ UNCHANGED poolvars
                   /\ policy' = behaviour.policy
                   /\ depends' = behaviour.depends
                   /\ startedbefore' =
                          {order[i] : i \in 1..Len(order)}
                   /\ IF 0 < r.devcount
                      THEN pc' = "sweep" /\ curdev' = listhead /\ sweeps' = 1
                      ELSE pc' = "config" /\ curdev' = NULL /\ sweeps' = 0
    /\ numstarted' = 0
    /\ prevstarted' = 0
    /\ sweepnew' = 0
    /\ result' = [op |-> "start", type |-> "none", tag |-> "", val |-> NULL]
    /\ callbacks' = TRUE
    /\ calls' = <<>>
    /\ UNCHANGED <<listhead, order, attached>>
    /\ UNCHANGED tagvars

\* device_list_start, "!device->started &&": whether the start entry point of
\* device is called in this pass of the loop body.
StartCalled(device) == ~mem[device].started

\* Mutant: the flag is set whatever the start entry point answers.
StartedAfter_AnyAnswer(device, ok) == TRUE

\* device_list_start, device->started after the loop body: ok is the answer of
\* the start entry point (FALSE when it is not called).
StartedAfter(device, ok) == mem[device].started \/ ok

\* device_list_start, the body of "iterate over devices and start them": ok is
\* the answer of the start entry point, which is called only for a device that
\* is not started.  Every type declares a start entry point (start != NULL).
StartDevice(ok) ==
    /\ pc = "sweep"
    /\ curdev # NULL
    /\ LET called == StartCalled(curdev)
           started == StartedAfter(curdev, ok)
       IN  /\ called => ok \in StartAnswers(curdev)
           /\ ~called => ~ok
           /\ mem' = [mem EXCEPT ![curdev].started = started,
                                 ![curdev].tokendata =
                                     IF called THEN "used" ELSE @]
           /\ numstarted' = numstarted + (IF started THEN 1 ELSE 0)
           /\ sweepnew' = sweepnew + (IF called /\ ok THEN 1 ELSE 0)
           /\ calls' = IF called
                       THEN Append(calls, [fct |-> "start", device |-> curdev,
                                           ok |-> ok])
                       ELSE calls
    /\ curdev' = mem[curdev].next
    /\ UNCHANGED <<listhead, order, pc, result, error, prevstarted, devcount,
                   sweeps, policy, depends, callbacks, attached, startedbefore,
                   poolvars>>
    /\ UNCHANGED tagvars

\* Mutant: a sweep that leaves a device unstarted is taken for no progress.
NothingNewStarted_NotAll == numstarted # devcount

\* Mutant: the comparison can never hold.
NothingNewStarted_Less == numstarted < prevstarted

\* device_list_start, "if we didn't start anything new, we're in trouble".
NothingNewStarted == numstarted = prevstarted

\* Mutant: the message reports the started devices.
CircularReport_Started ==
    [kind |-> "circular", a |-> numstarted, b |-> devcount]

\* device_list_start, the numbers of the circular dependency message.
CircularReport ==
    [kind |-> "circular", a |-> devcount - numstarted, b |-> devcount]

\* device_list_start, the end of a sweep: the circular dependency test and the
\* test of the while loop.
SweepEnd ==
    /\ pc = "sweep"
    /\ curdev = NULL
    /\ IF NothingNewStarted
       THEN /\ pc' = "halted"
            /\ error' = CircularReport
            /\ UNCHANGED <<curdev, numstarted, prevstarted, sweeps, sweepnew>>
       ELSE IF numstarted < devcount
       THEN /\ prevstarted' = numstarted
            /\ numstarted' = 0
            /\ curdev' = listhead
            /\ sweeps' = sweeps + 1
            /\ sweepnew' = 0
            /\ UNCHANGED <<pc, error>>
       ELSE /\ pc' = "config"
            /\ UNCHANGED <<error, curdev, numstarted, prevstarted, sweeps, sweepnew>>
    /\ UNCHANGED <<registry, result, devcount, policy, depends, callbacks,
                   calls, attached, startedbefore, poolvars>>
    /\ UNCHANGED tagvars

\* (*type)(NULL, DEVINFO_FCT_STOP, &info): TYPE_A declares no stop entry point.
devtype_get_stop(type) == type # "TYPE_A"

\* (*type)(NULL, DEVINFO_FCT_RESET, &info): TYPE_B declares no reset entry point.
devtype_get_reset(type) == type # "TYPE_B"

\* Mutant: the record is set back to what device_list_add made of it, links
\* included.
StoppedDevice_Fresh(rec) == NewDevice(rec.type, rec.tag)

\* device_list_stop, "free allocated memory for the token" and "reset all
\* runtime fields": the record of a device after them.
StoppedDevice(rec) ==
    [rec EXCEPT !.token = NULL,
                !.tokendata = "none",
                !.tokenbytes = 0,
                !.machine = NULL,
                !.region = NULL,
                !.regionbytes = 0]

\* device_list_stop, "iterate over devices and stop them", from cur on: the
\* heap it leaves, how it ended, the stop entry points it called and the
\* tokens it freed.  free is reached with a token that is not NULL only.
RECURSIVE StopFrom(_, _, _)
StopFrom(cur, m, cs) ==
    IF cur = NULL THEN [mem |-> m, kind |-> "none", calls |-> cs]
    ELSE IF m[cur].token = NULL
         THEN [mem |-> m, kind |-> "assert", calls |-> cs]
    ELSE StopFrom(m[cur].next,
                  [m EXCEPT ![cur] = StoppedDevice(m[cur])],
                  (IF devtype_get_stop(m[cur].type)
                   THEN Append(cs, [fct |-> "stop", device |-> cur, ok |-> TRUE])
                   ELSE cs)
                  \o <<[fct |-> "free", device |-> m[cur].token, ok |-> TRUE]>>)

\* device_list_stop, the exit callback registered by device_list_start.
device_list_stop ==
    /\ pc = "config"
    /\ callbacks
    /\ LET r == StopFrom(listhead, mem, <<>>)
       IN  /\ mem' = r.mem
           /\ calls' = r.calls
           /\ IF r.kind # "none"
              THEN pc' = "halted" /\ error' = [kind |-> r.kind, a |-> 0, b |-> 0]
              ELSE UNCHANGED <<pc, error>>
    /\ result' = [op |-> "stop", type |-> "none", tag |-> "", val |-> NULL]
    /\ UNCHANGED <<listhead, order, callbacks, attached, startedbefore, poolvars>>
    /\ StartLocalsGone
    /\ UNCHANGED tagvars

\* Mutant: a device without token is passed over.
ResetAsserts_None(device) == TRUE

\* device_reset, the assertion on the token (device and device->type are never
\* NULL for a record of the list).
ResetAsserts(device) == mem[device].token # NULL

\* device_list_reset, "iterate over devices and reset them", from cur on: how
\* it ended and the reset entry points device_reset called.
RECURSIVE ResetFrom(_, _)
ResetFrom(cur, cs) ==
    IF cur = NULL THEN [kind |-> "none", calls |-> cs]
    ELSE IF ~ResetAsserts(cur) THEN [kind |-> "assert", calls |-> cs]
    ELSE ResetFrom(mem[cur].next,
                   IF devtype_get_reset(mem[cur].type)
                   THEN Append(cs, [fct |-> "reset", device |-> cur, ok |-> TRUE])
                   ELSE cs)

\* device_list_reset, the reset callback registered by device_list_start.
device_list_reset ==
    /\ pc = "config"
    /\ callbacks
    /\ LET r == ResetFrom(listhead, <<>>)
       IN  /\ calls' = r.calls
           /\ IF r.kind # "none"
              THEN pc' = "halted" /\ error' = [kind |-> r.kind, a |-> 0, b |-> 0]
              ELSE UNCHANGED <<pc, error>>
    /\ result' = [op |-> "reset", type |-> "none", tag |-> "", val |-> NULL]
    /\ UNCHANGED <<registry, callbacks, attached, startedbefore, poolvars>>
    /\ StartLocalsGone
    /\ UNCHANGED tagvars

\* ------------------------------------------------------------ specification

\* A machine configuration without devices, before any call.
InitRegistry ==
    /\ mem = [a \in Addrs |-> FreeCell]
    /\ listhead = NULL
    /\ order = <<>>
    /\ pc = "config"
    /\ result = NoResult
    /\ error = NoError
    /\ curdev = NULL
    /\ numstarted = 0
    /\ prevstarted = 0
    /\ devcount = 0
    /\ sweeps = 0
    /\ sweepnew = 0
    /\ policy = "free"
    /\ depends = NoDepends
    /\ callbacks = FALSE
    /\ calls = <<>>
    /\ attached = {}
    /\ startedbefore = {}

\* The pool of temporary strings at program start: static storage is zeroed.
InitPool ==
    /\ temp_string_pool = [slot \in PoolSlots |-> ""]
    /\ temp_string_pool_index = 0
    /\ acquired = <<>>

\* No tag function has been called.
InitTags ==
    /\ tagargs = NoTagArgs
    /\ dest = <<>>
    /\ tagreturn = NoTagReturn

Init == InitRegistry /\ InitPool /\ InitTags

Next ==
    \/ \E d \in Declared, device \in Addrs : device_list_add(d[1], d[2], device)
    \/ \E d \in Declared : device_list_remove(d[1], d[2])
    \/ device_list_attach_machine
    \/ \E behaviour \in StartBehaviours : device_list_start(behaviour)
    \/ \E ok \in BOOLEAN : StartDevice(ok)
    \/ SweepEnd
    \/ device_list_stop
    \/ device_list_reset

Spec == Init /\ [][Next]_vars

\* device_list_start runs on the caller's thread and does not yield: once in
\* the start loop, the next step of the loop is taken.
FairSpec ==
    /\ Spec
    /\ WF_vars(\E ok \in BOOLEAN : StartDevice(ok))
    /\ WF_vars(SweepEnd)

\* ------------------------------------------ specification: temporary strings

\* What a build may do on the signed overflow of temp_string_pool_index++ and
\* on the write of string[0] = 0 outside the pool, both undefined behaviour:
\* the program goes on (the value wraps, other memory takes the write) or it
\* is stopped (a trap, a fault).
UndefinedOutcomes == {"goes on", "stopped"}

\* The values of temp_string_pool_index a run is picked up at: the first calls
\* of the program, and the calls before the cursor reaches INT_MAX.
PoolStarts ==
    (0..TEMP_STRING_POOL_ENTRIES)
    \cup {INT_MAX - back : back \in 0..(2 * TEMP_STRING_POOL_ENTRIES)}

\* The pool after index calls from program start.
PoolAfter(index) ==
    [slot \in PoolSlots |-> IF slot < index THEN InfoString ELSE ""]

\* The program after some number of string queries, with no device configured.
PoolInit ==
    /\ InitRegistry
    /\ temp_string_pool_index \in PoolStarts
    /\ temp_string_pool = PoolAfter(temp_string_pool_index)
    /\ acquired = <<>>
    /\ InitTags

\* devtype_get_info_string (device_get_info_string does the same to the pool).
devtype_get_info_string(outcome) ==
    /\ pc = "config"
    /\ Len(acquired) < MaxAcquisitions
    /\ LET undefined == \/ temp_string_pool_index = INT_MAX
                        \/ get_temp_string_buffer.slot \notin PoolSlots
       IN  IF undefined /\ outcome = "stopped"
           THEN /\ pc' = "halted"
                /\ error' = [kind |-> "undefined", a |-> 0, b |-> 0]
                /\ UNCHANGED poolvars
           ELSE /\ outcome = "goes on"
                /\ InfoStringCall
                /\ UNCHANGED <<pc, error>>
    /\ UNCHANGED <<registry, result, startvars, callbacks, calls, attached,
                   startedbefore>>
    /\ UNCHANGED tagvars

PoolNext == \E outcome \in UndefinedOutcomes : devtype_get_info_string(outcome)

PoolSpec == PoolInit /\ [][PoolNext]_vars

\* ------------------------------------------------------ specification: tags

\* The arguments of one call of a tag function, and a dest that is empty or
\* holds an earlier string.
TagInit ==
    /\ InitRegistry
    /\ InitPool
    /\ tagargs \in [device : TagDevices,
                     sourcetag : StringsUpTo(MaxTagLength),
                     tag : StringsUpTo(MaxTagLength)]
    /\ dest \in {<<>>, <<"d">>}
    /\ tagreturn = NoTagReturn

\* A call of device_build_tag(dest, device, tag).
BuildTag ==
    /\ tagreturn.fct = "none"
    /\ dest' = device_build_tag(dest, tagargs.device, tagargs.tag)
    /\ tagreturn' = [fct |-> "device_build_tag", val |-> dest']
    /\ UNCHANGED <<tagargs, registry, pc, result, error, startvars, callbacks,
                   calls, attached, startedbefore, poolvars>>

\* A call of device_inherit_tag(dest, sourcetag, tag).
InheritTag ==
    /\ tagreturn.fct = "none"
    /\ dest' = device_inherit_tag(dest, tagargs.sourcetag, tagargs.tag)
    /\ tagreturn' = [fct |-> "device_inherit_tag", val |-> dest']
    /\ UNCHANGED <<tagargs, registry, pc, result, error, startvars, callbacks,
                   calls, attached, startedbefore, poolvars>>

TagNext == BuildTag \/ InheritTag

TagSpec == TagInit /\ [][TagNext]_vars

\* --------------------------------------------------------------- traversals

\* The records a caller visits with cur = device_list_next(cur, type) from cur
\* on, in at most fuel steps.
RECURSIVE TraverseFrom(_, _, _)
TraverseFrom(cur, type, fuel) ==
    IF cur = NULL \/ fuel = 0 THEN <<>>
    ELSE <<cur>> \o TraverseFrom(device_list_next(cur, type), type, fuel - 1)

\* for (cur = device_list_first(type); cur != NULL; cur = device_list_next(cur, type))
Traversal(type) == TraverseFrom(device_list_first(type), type, MaxDevices + 1)

RECURSIVE ClassTraverseFrom(_, _, _)
ClassTraverseFrom(cur, class, fuel) ==
    IF cur = NULL \/ fuel = 0 THEN <<>>
    ELSE <<cur>> \o ClassTraverseFrom(device_list_class_next(cur, class), class, fuel - 1)

\* for (cur = device_list_class_first(class); cur != NULL;
\*      cur = device_list_class_next(cur, class))
ClassTraversal(class) ==
    ClassTraverseFrom(device_list_class_first(class), class, MaxDevices + 1)

\* ------------------------------------------------------ what the claims read

\* The entries that match a type filter, in insertion order.
Matching(filter) ==
    SelectSeq(order, LAMBDA a : filter = DEVICE_TYPE_WILDCARD \/ mem[a].type = filter)

\* The entries whose type declares the class, in insertion order.
OfClass(class) ==
    SelectSeq(order, LAMBDA a : devtype_get_class(mem[a].type) = class)

\* The entries with the type and the tag.
Holding(type, tag) ==
    {order[i] : i \in {j \in 1..Len(order) :
                          mem[order[j]].type = type /\ mem[order[j]].tag = tag}}

\* The step is a call of device_list_add or device_list_remove.
CallOf(op) == pc = "config" /\ result'.op = op

\* ------------------------------------------------------------------ claims

\* C1: after any sequence of device_list_add and device_list_remove calls, no
\* two entries of the registry have both the same type and the same tag.
C1_UniqueTypeTag ==
    \A i, j \in 1..Len(GlobalChain(listhead)) :
        LET x == GlobalChain(listhead)[i]
            y == GlobalChain(listhead)[j]
        IN  (mem[x].type = mem[y].type /\ mem[x].tag = mem[y].tag) => i = j

\* C1 witness: after a remove and a later add the registry holds two entries
\* of one type and two entries with one tag.
C1_Witness ==
    /\ result.op = "add" /\ result.val # NULL
    /\ Len(order) = 3
    /\ order[3] < order[2]
    /\ \E i, j \in 1..3 : i # j /\ mem[order[i]].type = mem[order[j]].type
    /\ \E i, j \in 1..3 : i # j /\ mem[order[i]].tag = mem[order[j]].tag

\* C2: device_list_add(type, tag) with an entry of the same type and tag in the
\* registry ends in the fatal duplicate error and changes nothing: the heap and
\* the list head are the same, so the same entries are reached in the same
\* global order and the same per-type order.
C2_DuplicateAddIsFatal ==
    [][(CallOf("add") /\ Holding(result'.type, result'.tag) # {})
          => /\ pc' = "halted"
             /\ error'.kind = "duplicate"
             /\ mem' = mem
             /\ listhead' = listhead
             /\ \A f \in TypeFilters : Traversal(f)' = Traversal(f)]_vars

\* C2 witness: the add of a duplicate ended in the fatal error with other
\* entries in the registry.
C2_Witness ==
    /\ pc = "halted" /\ error.kind = "duplicate"
    /\ Len(order) >= 2
    /\ Holding(result.type, result.tag) # {}

\* C3: device_list_remove(type, tag) with no such entry ends in the fatal error
\* and unlinks and frees nothing; with the entry in the registry it takes the
\* entry out of the global chain and out of its type chain, and every other
\* entry is still reached, in its previous relative order.
C3_Remove ==
    [][CallOf("remove")
          => IF Holding(result'.type, result'.tag) = {}
             THEN /\ pc' = "halted"
                  /\ error'.kind = "nonexistent"
                  /\ mem' = mem
                  /\ listhead' = listhead
             ELSE \E device \in Holding(result'.type, result'.tag) :
                  /\ pc' = "config"
                  /\ mem'[device] = FreeCell
                  /\ \A f \in TypeFilters :
                        Traversal(f)' = Without(Traversal(f), device)]_vars

\* C3 witness: a remove took an entry out of a registry that still holds an
\* entry of the removed entry's type and an entry of another type.
C3_Witness ==
    /\ result.op = "remove" /\ pc = "config"
    /\ Len(order) = 2
    /\ mem[order[1]].type = result.type
    /\ mem[order[2]].type # result.type

\* C3 witness of the fatal case.
C3_WitnessFatal ==
    /\ pc = "halted" /\ error.kind = "nonexistent" /\ Len(order) >= 1

\* C4: after r = device_list_add(type, tag) of a pair that was not in the
\* registry, device_list_find_by_tag(type, tag) returns r and
\* device_list_find_by_index(type, device_list_index(type, tag)) returns r,
\* whatever other entries the registry holds.
C4_AddThenFind ==
    (result.op = "add" /\ pc = "config")
        => /\ result.val # NULL
           /\ device_list_find_by_tag(result.type, result.tag) = result.val
           /\ device_list_find_by_index_asserts(
                  result.type, device_list_index(result.type, result.tag))
           /\ device_list_find_by_index(
                  result.type, device_list_index(result.type, result.tag)) = result.val

\* C4 witness: the record added last comes after an entry of another type
\* with the same tag and after an entry of its own type.
C4_Witness ==
    /\ result.op = "add" /\ pc = "config"
    /\ \E i \in 1..Len(order) :
          /\ order[i] # result.val
          /\ mem[order[i]].tag = result.tag
          /\ mem[order[i]].type # result.type
    /\ \E i \in 1..Len(order) :
          /\ order[i] # result.val
          /\ mem[order[i]].type = result.type

\* C5: the traversal with the wildcard visits every entry once, in insertion
\* order; the traversal with a concrete type T from device_list_first(T) visits
\* the entries of type T and no other, each once, in their insertion order.
C5_TraversalOrder ==
    \A f \in TypeFilters : Traversal(f) = Matching(f)

\* C5 witness: types A, A, B in that order (the registry of the spec's example),
\* left by calls that included a remove.
C5_Witness ==
    /\ Len(order) = 3
    /\ mem[order[1]].type = "TYPE_A"
    /\ mem[order[2]].type = "TYPE_A"
    /\ mem[order[3]].type = "TYPE_B"
    /\ order[1] > order[2]

\* C6: the traversal with device_list_class_first and device_list_class_next
\* for a class visits the entries whose type declares the class and no other,
\* each once, in insertion order, whatever their types; device_list_class_items
\* is the number of entries visited.
C6_ClassTraversal ==
    \A class \in DeviceClasses :
        /\ ClassTraversal(class) = OfClass(class)
        /\ device_list_class_items(class) = Len(ClassTraversal(class))

\* C6 witness: two entries of one class and of different types, with an entry
\* of the other class between them.
C6_Witness ==
    /\ Len(order) = 3
    /\ mem[order[1]].type = "TYPE_A"
    /\ mem[order[2]].type = "TYPE_C"
    /\ mem[order[3]].type = "TYPE_B"

\* The indexes handed to device_list_find_by_index.
IndexInputs == (0 - 2)..(MaxDevices + 1)

\* The entry device_list_find_by_index is to return: the one at zero-based
\* position index among the matching entries, NULL outside of them.
AtPosition(filter, index) ==
    IF 0 <= index /\ index < device_list_items(filter)
    THEN Matching(filter)[index + 1]
    ELSE NULL

\* The matching entries before the first matching entry with the tag.
BeforeTag(filter, tag) ==
    LET m == Matching(filter)
        first == CHOOSE i \in 1..Len(m) :
                    /\ mem[m[i]].tag = tag
                    /\ \A j \in 1..(i - 1) : mem[m[j]].tag # tag
    IN  first - 1

\* device_list_index agrees with the position of the tag among the matches.
IndexOfTagAgrees ==
    \A filter \in TypeFilters, tag \in Tags :
        (\E i \in 1..Len(Matching(filter)) : mem[Matching(filter)[i]].tag = tag)
            => device_list_index(filter, tag) = BeforeTag(filter, tag)

\* C7 as claimed: device_list_index returns the number of matching entries
\* before the first matching entry with the tag, and for every integer i
\* device_list_find_by_index(filter, i) returns the entry at position i among
\* the matches, and not-found for every i out of that range.
C7_Original ==
    /\ IndexOfTagAgrees
    /\ \A filter \in TypeFilters, i \in IndexInputs :
          /\ device_list_find_by_index_asserts(filter, i)
          /\ device_list_find_by_index(filter, i) = AtPosition(filter, i)

\* C7 as amended: the same for every integer i >= 0; a negative i fails the
\* assertion index >= 0 and nothing is returned.
C7_IndexAgrees ==
    /\ IndexOfTagAgrees
    /\ \A filter \in TypeFilters : device_list_items(filter) = Len(Matching(filter))
    /\ \A filter \in TypeFilters, i \in IndexInputs :
          IF i >= 0
          THEN /\ device_list_find_by_index_asserts(filter, i)
               /\ device_list_find_by_index(filter, i) = AtPosition(filter, i)
          ELSE ~device_list_find_by_index_asserts(filter, i)

\* C7 witness: a concrete filter with two matches and an entry of another type
\* between them, and a tag that two entries of different types carry.
C7_Witness ==
    /\ Len(order) = 3
    /\ mem[order[1]].type = "TYPE_A" /\ mem[order[1]].tag = "b"
    /\ mem[order[2]].type = "TYPE_B" /\ mem[order[2]].tag = "a"
    /\ mem[order[3]].type = "TYPE_A" /\ mem[order[3]].tag = "a"

\* The devices of the registry whose started flag is false.
Unstarted == {a \in {order[i] : i \in 1..Len(order)} : ~mem[a].started}

\* The position of a device in the global order.
Position(a) == CHOOSE i \in 1..Len(order) : order[i] = a

\* The devices of a dependency chain that come before the device they wait
\* for in the global order.
Descents ==
    {a \in {order[i] : i \in 1..Len(order)} :
        depends[a] # NULL /\ Position(a) < Position(depends[a])}

\* device_list_start has returned to its caller.
StartReturned == result.op = "start" /\ pc = "config"

\* C8 as claimed: with a chain of N devices where the start of device i only
\* succeeds once device i-1 is started, device_list_start converges in exactly
\* N sweeps and all N devices end started.
C8_Original ==
    (policy = "chain" /\ StartReturned)
        => (sweeps = Len(order) /\ Unstarted = {})

\* C8 as amended: device_list_start ends with all N devices started and
\* without the circular dependency error, after at most N sweeps: for N >= 1,
\* one sweep more than there are devices that come before their predecessor in
\* global order, which is N sweeps when the chain is registered in reverse
\* order and one sweep when it is registered in dependency order.
C8_ChainConverges ==
    policy = "chain"
        => /\ error.kind # "circular"
           /\ StartReturned
                 => /\ Unstarted = {}
                    /\ sweeps <= Len(order)
                    /\ Len(order) > 0 => sweeps = 1 + Cardinality(Descents)

\* C8 witness: a chain of three devices registered in reverse order has been
\* started in three sweeps.
C8_Witness ==
    /\ policy = "chain" /\ StartReturned
    /\ Len(order) = 3
    /\ sweeps = 3
    /\ depends[order[1]] = order[2]
    /\ depends[order[2]] = order[3]

\* C9: once in its start loop, device_list_start ends, whatever the start entry
\* points answer on each call: either it returns with every device started or
\* it stops with the circular dependency error, and it never begins more
\* sweeps than there are devices.
C9_StartTerminates ==
    /\ [](sweeps <= Len(order))
    /\ [](StartReturned => Unstarted = {})
    /\ []((pc = "halted" /\ sweeps > 0) => error.kind = "circular")
    /\ (pc = "sweep") ~> (StartReturned \/ (pc = "halted" /\ error.kind = "circular"))

\* C9 witness: two devices that both reported deferred, and the start ended
\* with the circular dependency error after one sweep.
C9_Witness ==
    /\ pc = "halted" /\ error.kind = "circular"
    /\ policy = "free"
    /\ Len(order) = 2
    /\ Cardinality(Unstarted) = 2
    /\ sweeps = 1

\* C10: the circular dependency error is raised exactly when a full sweep has
\* started no new device while some device is unstarted, and it reports the
\* number of devices whose started flag is false at that moment and the number
\* of devices in the registry.
C10_CircularReport ==
    [][/\ (pc = "sweep" /\ curdev = NULL)
             => /\ (error'.kind = "circular") <=> (sweepnew = 0 /\ Unstarted # {})
                /\ error'.kind = "circular"
                      => /\ pc' = "halted"
                         /\ error'.a = Cardinality(Unstarted)
                         /\ error'.b = Len(order)
       /\ (error'.kind = "circular" /\ error.kind # "circular")
             => (pc = "sweep" /\ curdev = NULL)]_vars

\* C10 witness: the error was raised in a later sweep, with one device started
\* and two devices unstarted.
C10_Witness ==
    /\ pc = "halted" /\ error.kind = "circular"
    /\ sweeps = 2
    /\ error.a = 2 /\ error.b = 3

\* The devices of the registry.
Listed == {order[i] : i \in 1..Len(order)}

\* The devices of the registry whose type reports a token size of zero bytes.
ZeroTokenDevices == {d \in Listed : devtype_get_token_bytes(mem[d].type) = 0}

\* C11: a device_list_start on a registry that holds a device whose type
\* reports a token size of zero bytes stops the program before any start entry
\* point has been called: no call is recorded and no sweep has begun.  It
\* stops with the zero token length message when the assertions of the
\* allocation loop hold for every device, and otherwise with that message or
\* with a failed assertion of the allocation loop, whichever device comes
\* first in the list.
C11_ZeroTokenIsFatal ==
    [][(CallOf("start") /\ ZeroTokenDevices # {}) =>
          /\ pc' = "halted"
          /\ error'.kind \in {"zerotoken", "assert"}
          /\ (\A d \in Listed : StartAsserts(mem, d)) => error'.kind = "zerotoken"
          /\ calls' = <<>>
          /\ sweeps' = 0
          /\ \A d \in Listed : mem'[d].started = mem[d].started]_vars

\* C11 witness: the program stopped on a zero token length after an earlier
\* device of the list had been given its token.
C11_Witness ==
    /\ pc = "halted"
    /\ error.kind = "zerotoken"
    /\ result.op = "start"
    /\ \E d \in Listed : mem[d].token # NULL
    /\ calls = <<>>

\* The runtime fields of device d are null/zero in heap m.
RuntimeFieldsNull(m, d) ==
    /\ m[d].token = NULL
    /\ m[d].tokenbytes = 0
    /\ m[d].machine = NULL
    /\ m[d].region = NULL
    /\ m[d].regionbytes = 0

C13_StopIdempotent ==
    [][(CallOf("stop") /\ result.op \in {"start", "stop"}) =>
          /\ pc' = "config"
          /\ \A d \in Listed : RuntimeFieldsNull(mem', d)
          /\ (result.op = "stop" =>
                 \A i \in 1..Len(calls') : calls'[i].fct # "free")]_vars

\* The devices of seq whose type declares a reset entry point, in the order of seq.
WithReset(seq) == SelectSeq(seq, LAMBDA d : devtype_get_reset(mem[d].type))

\* One call of the reset entry point for each device of seq, in the order of seq.
ResetCallsOf(seq) ==
    [i \in 1..Len(seq) |-> [fct |-> "reset", device |-> seq[i], ok |-> TRUE]]

\* The devices of the registry before the first one that holds no token, in
\* global order (all of them when every device holds a token).
BeforeTokenless ==
    SelectSeq(order, LAMBDA d :
        \A e \in Listed : mem[e].token = NULL => Position(d) < Position(e))

\* C14 as stated: every device_list_reset completes without error, calls the
\* reset entry point of each device whose type declares one exactly once and
\* in global order, calls nothing for the other devices and changes no device.
C14_Original ==
    [][CallOf("reset") =>
          /\ pc' = "config"
          /\ calls' = ResetCallsOf(WithReset(order))
          /\ mem' = mem]_vars

\* C14: a device_list_reset on a registry whose devices all hold a token
\* completes without error and calls the reset entry point of each device
\* whose type declares one exactly once and in global order, and nothing for
\* the others.  When some device holds no token it stops on the assertion of
\* device_reset at the first such device, after the calls for the devices
\* before it.  No device is changed either way.
C14_ResetCalls ==
    [][CallOf("reset") =>
          /\ mem' = mem
          /\ calls' = ResetCallsOf(WithReset(BeforeTokenless))
          /\ IF \A d \in Listed : mem[d].token # NULL
             THEN pc' = "config" /\ error' = error
             ELSE pc' = "halted" /\ error'.kind = "assert"]_vars

\* C14 witness: a reset has returned that called two reset entry points and
\* passed over a device whose type declares none.
C14_Witness ==
    /\ pc = "config"
    /\ result.op = "reset"
    /\ Len(calls) = 2
    /\ calls[1].device # calls[2].device
    /\ \E d \in Listed : ~devtype_get_reset(mem[d].type)

\* C15 as stated: among the buffers get_temp_string_buffer has returned, the
\* k-th and the (k+16)-th are the same buffer, any 16 consecutive ones are
\* pairwise distinct and every one was returned cleared to the empty string;
\* so the 17th is the buffer of the first, and the second to the 17th are
\* pairwise distinct.
C15_PoolRoundRobin ==
    /\ \A k \in 1..Len(acquired) :
          k + TEMP_STRING_POOL_ENTRIES <= Len(acquired) =>
              acquired[k + TEMP_STRING_POOL_ENTRIES].buffer = acquired[k].buffer
    /\ \A i, j \in 1..Len(acquired) :
          (i < j /\ j < i + TEMP_STRING_POOL_ENTRIES) =>
              acquired[i].buffer # acquired[j].buffer
    /\ \A k \in 1..Len(acquired) : acquired[k].content = ""

\* C16: device_build_tag returns the tag of the device, a ":" and the given
\* tag, in this order, when a device is given, and the given tag as it is when
\* the device is NULL; dest holds the returned string.
C16_BuildTag ==
    tagreturn.fct = "device_build_tag" =>
        /\ tagreturn.val = IF tagargs.device.null THEN tagargs.tag
                           ELSE tagargs.device.tag \o <<":">> \o tagargs.tag
        /\ dest = tagreturn.val

\* C16 witness: device_build_tag has returned for a device whose tag contains
\* a ":" and an empty child tag.
C16_Witness ==
    /\ tagreturn.fct = "device_build_tag"
    /\ ~tagargs.device.null
    /\ \E i \in 1..Len(tagargs.device.tag) : tagargs.device.tag[i] = ":"
    /\ tagargs.tag = <<>>
    /\ Len(tagreturn.val) = Len(tagargs.device.tag) + 1

\* The positions of ":" in the string s.
Dividers(s) == {i \in 1..Len(s) : s[i] = ":"}

\* C17: device_inherit_tag returns the prefix of sourcetag up to and including
\* its last ":" followed by the given tag when sourcetag contains a ":", and
\* the given tag as it is when sourcetag contains none.
C17_InheritTag ==
    tagreturn.fct = "device_inherit_tag" =>
        LET at == Dividers(tagargs.sourcetag)
        IN  tagreturn.val =
                IF at = {} THEN tagargs.tag
                ELSE [i \in 1..(CHOOSE last \in at : \A other \in at : other <= last)
                        |-> tagargs.sourcetag[i]] \o tagargs.tag

\* C17 witness: device_inherit_tag has returned for a sourcetag with two ":"
\* that does not end in ":".
C17_Witness ==
    /\ tagreturn.fct = "device_inherit_tag"
    /\ Cardinality(Dividers(tagargs.sourcetag)) = 2
    /\ tagargs.sourcetag[Len(tagargs.sourcetag)] # ":"
    /\ tagargs.tag # <<>>
    /\ Len(tagreturn.val) = 2 + Len(tagargs.tag)

\* The device after d in the global order, NULL after the last one.
Following(d) ==
    IF Position(d) = Len(order) THEN NULL ELSE order[Position(d) + 1]

\* C18: inside device_list_start the started flag of a device becomes true
\* only in the step that calls the start entry point of that device and gets
\* success; a call of a start entry point is a call for the device the sweep
\* is at, which is not started; and a sweep begins at the first device of the
\* global order and goes from each device to the one after it, calling the
\* start entry point of every device that is not started.
C18_StartCalls ==
    [][/\ \A d \in Listed :
             (~mem[d].started /\ mem'[d].started) =>
                 /\ pc = "sweep"
                 /\ curdev = d
                 /\ calls' = Append(calls, [fct |-> "start", device |-> d,
                                            ok |-> TRUE])
       /\ (pc = "sweep" /\ calls' # calls) =>
             /\ curdev # NULL
             /\ ~mem[curdev].started
             /\ \E ok \in BOOLEAN :
                   calls' = Append(calls, [fct |-> "start", device |-> curdev,
                                          ok |-> ok])
       /\ (pc = "sweep" /\ curdev # NULL) =>
             /\ curdev' = Following(curdev)
             /\ ~mem[curdev].started => Len(calls') = Len(calls) + 1
       /\ (pc' = "sweep" /\ sweeps' # sweeps) =>
             curdev' = Head(order)]_vars

\* C18 witness: in a second sweep a device is started whose start entry point
\* had refused in the first sweep, after a device that was passed over
\* because it is started.
C18_Witness ==
    /\ pc = "sweep"
    /\ sweeps = 2
    /\ \E i, j \in 1..Len(calls) :
          /\ i < j
          /\ calls[i].device = calls[j].device
          /\ ~calls[i].ok
          /\ calls[j].ok
          /\ mem[calls[j].device].started
          /\ \E d \in Listed : Position(d) < Position(calls[j].device)
                                 /\ \A k \in i..j : calls[k].device # d

\* C19 as stated: when device_list_stop has returned, every device is as it
\* was immediately after device_list_add: started flag false, token null,
\* machine null, region null, region length zero.
C19_StopLeavesUnstarted ==
    (pc = "config" /\ result.op = "stop") =>
        \A d \in Listed :
            LET fresh == NewDevice(mem[d].type, mem[d].tag)
            IN  /\ mem[d].started = fresh.started
                /\ mem[d].token = fresh.token
                /\ mem[d].machine = fresh.machine
                /\ mem[d].region = fresh.region
                /\ mem[d].regionbytes = fresh.regionbytes

\* Every device of the registry was added before the last attach and has not
\* been gone over by an earlier device_list_start.
AttachedAndFresh == \A d \in Listed : d \in attached /\ d \notin startedbefore

StartCalledFor == {calls[i].device : i \in {j \in 1..Len(calls) : calls[j].fct = "start"}}

\* Device d holds a token of the size its type declares and the region that
\* its tag names, with the length of that region.
Allocated(d) ==
    /\ mem[d].token # NULL
    /\ mem[d].tokenbytes = devtype_get_token_bytes(mem[d].type)
    /\ mem[d].tokenbytes > 0
    /\ mem[d].region = memory_region(mem[d].tag)
    /\ mem[d].regionbytes = memory_region_length(mem[d].tag)

\* C21: while device_list_start is in its start loop every device of the
\* registry holds its token and its resolved region, and the token of a device
\* whose start entry point has not been called yet is zero-filled; so at the
\* first call of a start entry point all tokens are allocated and zero-filled,
\* and every call of a start entry point is made in the start loop with no
\* device of the registry holding a null token.
C21_TokensBeforeStart ==
    /\ [](pc = "sweep" =>
            \A d \in Listed :
                /\ Allocated(d)
                /\ d \notin StartCalledFor => mem[d].tokendata = "zero")
    /\ [][(calls' # calls /\ calls' # <<>> /\ calls'[Len(calls')].fct = "start") =>
              /\ pc = "sweep"
              /\ \A d \in Listed : Allocated(d)
              /\ calls = <<>> => \A d \in Listed : mem[d].tokendata = "zero"]_vars

\* C21 witness: the first start entry point has been called while another
\* device, not called yet, holds its zero-filled token and its region.
C21_Witness ==
    /\ pc = "sweep"
    /\ Len(calls) = 1
    /\ calls[1].fct = "start"
    /\ \E d \in Listed :
          /\ d \notin StartCalledFor
          /\ mem[d].token # NULL
          /\ mem[d].tokendata = "zero"
          /\ mem[d].region # NULL

\* The first device after prev in the global order that matches the type
\* filter, or NULL when there is none.
NextMatching(prev, filter) ==
    LET later == {d \in Listed : Position(prev) < Position(d)
                                  /\ (filter = DEVICE_TYPE_WILDCARD
                                      \/ mem[d].type = filter)}
    IN  IF later = {} THEN NULL
        ELSE CHOOSE d \in later : \A e \in later : Position(d) <= Position(e)

\* C22 as stated: for every device prev of the registry and every type filter,
\* device_list_next(prev, filter) is the first device after prev in the global
\* order that matches the filter, or NULL, whether or not prev itself matches.
C22_NextAnyPrev ==
    \A prev \in Listed, filter \in TypeFilters :
        device_list_next(prev, filter) = NextMatching(prev, filter)

\* C23 as stated: every call of get_temp_string_buffer returns, and the slot
\* it uses is one of the 16 slots of the pool and follows the slot of the call
\* before it in round-robin order, also when temp_string_pool_index has
\* passed the largest int.
C23_SlotInPool ==
    /\ error.kind # "undefined"
    /\ \A k \in 1..Len(acquired) : acquired[k].buffer \in PoolSlots
    /\ \A k \in 1..(Len(acquired) - 1) :
          acquired[k + 1].buffer =
              (acquired[k].buffer + 1) % TEMP_STRING_POOL_ENTRIES

\* The started flag and the runtime fields of a record.
LiveFields(rec) ==
    <<rec.started, rec.token, rec.tokenbytes, rec.tokendata, rec.machine,
      rec.region, rec.regionbytes>>

\* The step is one of device_list_attach_machine, device_list_start (the call
\* or a step of its start loop), device_list_reset and device_list_stop.
LifecycleStep ==
    \/ pc = "sweep"
    \/ pc = "config" /\ result'.op \in {"attach", "start", "reset", "stop"}

\* C24: a step of device_list_attach_machine, device_list_start,
\* device_list_reset or device_list_stop leaves unchanged which cells hold a
\* device, the head and the global chain, the chain of every type, and the
\* type, class, tag and links of every device; device_list_add leaves the
\* started flag and the runtime fields of every device that was in the
\* registry unchanged, and device_list_remove those of every device that
\* stays in it.  (The lookups are functions of the state and write nothing.)
C24_Frame ==
    [][/\ LifecycleStep =>
             /\ listhead' = listhead
             /\ order' = order
             /\ GlobalChain(listhead)' = GlobalChain(listhead)
             /\ \A type \in DeviceTypes : Traversal(type)' = Traversal(type)
             /\ \A a \in Addrs :
                   /\ (mem'[a] = FreeCell) <=> (mem[a] = FreeCell)
                   /\ mem'[a].type = mem[a].type
                   /\ mem'[a].class = mem[a].class
                   /\ mem'[a].tag = mem[a].tag
                   /\ mem'[a].next = mem[a].next
                   /\ mem'[a].typenext = mem[a].typenext
       /\ CallOf("add") =>
             \A d \in Listed : LiveFields(mem'[d]) = LiveFields(mem[d])
       /\ CallOf("remove") =>
             \A d \in Listed : d \in Listed' => LiveFields(mem'[d]) = LiveFields(mem[d])
      ]_vars

\* C24 witness: device_list_stop has returned on a registry of three devices
\* of two types, whose chain is still the order in which they were added.
C24_Witness ==
    /\ pc = "config"
    /\ result.op = "stop"
    /\ Len(order) = 3
    /\ GlobalChain(listhead) = order
    /\ \E d, e \in Listed : mem[d].type # mem[e].type
    /\ \A d \in Listed : mem[d].started /\ mem[d].token = NULL
====
